---- MODULE Spec2Model ----
(***************************************************************************)
(* Model of the Auction class of PROG2400_FinalProject/Auction.py: a       *)
(* unique-bid blind auction ledger with place_bid, close_auction and       *)
(* restart_auction.                                                        *)
(*                                                                         *)
(* Numbers.  Bid amounts are Python ints; current_max and min_bid can also *)
(* hold the float -inf (current_max starts there, min_bid gets there by    *)
(* restart_auction on a ledger without bids, since -inf + 1 = -inf).       *)
(* -inf is encoded as the integer NegInf, which lies below every amount a  *)
(* bid is drawn from, so the integer order agrees with Python's order on   *)
(* int and -inf; Plus1 is Python's "+ 1" on that domain.                   *)
(***************************************************************************)
EXTENDS Integers, Sequences, FiniteSets, TLC

\* ---- bounds of the model ----
MaxAmount == 2          \* bids are drawn from 0..MaxAmount
MaxBids == 3            \* accepted bids per round
MaxCalls == 3           \* calls made by the threads of SpecThreads
Bidders == {"Bidder1", "Bidder2"}
Amounts == 0 .. MaxAmount
InitFloors == 1 .. MaxAmount

\* ---- -inf and arithmetic on int + {-inf} ----
NegInf == -1

Plus1(x) == IF x = NegInf THEN NegInf ELSE x + 1

\* ---- state ----
VARIABLES
  min_bid,            \* self.min_bid
  frequency,          \* self.frequency: function from its keys to sequences of bidders
  current_max,        \* self.current_max (NegInf while unset)
  current_max_count,  \* self.current_max_count
  call,               \* the last call made on the ledger
  outcome,            \* what that call returned, raised or logged
  prev,               \* the call before it (its name and flag), with its outcome
  accepted,           \* history: the bids accepted since the last restart, in order
  earlierMax,         \* history: the highest amount accepted in an earlier round (NegInf if none)
  closedBeforeBid,    \* history: whether a close_auction of this round was directly
                      \* followed by an accepted bid
  lock_enabled,       \* whether self.lock and the "with self.lock:" lines are uncommented
  lock,               \* self.lock: the thread holding it, or NoThread
  pc,                 \* per thread: the line it is about to execute, or "idle"
  loc,                \* per thread: the arguments and temporaries of its call
  ncalls              \* the number of calls the threads have made

ledger == <<min_bid, frequency, current_max, current_max_count>>
history == <<accepted, earlierMax, closedBeforeBid>>
vars == <<min_bid, frequency, current_max, current_max_count, call, outcome, prev,
          accepted, earlierMax, closedBeforeBid,
          lock_enabled, lock, pc, loc, ncalls>>
threads == <<lock_enabled, lock, pc, loc, ncalls>>
calls == <<call, outcome, prev>>

Threads == {1, 2}
NoThread == 0
NoLocals == [bidder |-> "", amount |-> 0, flag |-> FALSE, tmp |-> 0]

EmptyDict == [k \in {} |-> <<>>]

NoCall == [op |-> "__init__", bidder |-> "", amount |-> 0, flag |-> FALSE]
PlaceCall(b, a) == [op |-> "place_bid", bidder |-> b, amount |-> a, flag |-> FALSE]
CloseCall(f) == [op |-> "close_auction", bidder |-> "", amount |-> 0, flag |-> f]
RestartCall == [op |-> "restart_auction", bidder |-> "", amount |-> 0, flag |-> FALSE]

\* what prev keeps of the last call when the next one is made
Previous == [call |-> [call EXCEPT !.bidder = "", !.amount = 0], outcome |-> outcome]

\* ---- defaultdict(list) ----
\* frequency[k] as an expression: the stored list, or the fresh empty list
DictGet(f, k) == IF k \in DOMAIN f THEN f[k] ELSE <<>>

\* the dictionary after evaluating frequency[k]: a missing key is inserted
DictTouch(f, k) == IF k \in DOMAIN f THEN f ELSE f @@ (k :> <<>>)

\* frequency[k].insert(0, b)
DictAppend_front(f, k, b) == [DictTouch(f, k) EXCEPT ![k] = <<b>> \o @]

\* frequency[k].append(b)
DictAppend(f, k, b) == [DictTouch(f, k) EXCEPT ![k] = Append(@, b)]

\* ---- place_bid ----
BelowMin_never(amount, floor) == FALSE

BelowMin(amount, floor) == amount < floor

NextMax_last(cm, amount) == amount

NextMax(cm, amount) == IF amount > cm THEN amount ELSE cm

NextMaxCount_reset(cm, cnt, amount) ==
  IF amount >= cm THEN 1 ELSE cnt

NextMaxCount_noIncrement(cm, cnt, amount) ==
  IF amount > cm THEN 1 ELSE cnt

NextMaxCount(cm, cnt, amount) ==
  IF amount > cm THEN 1
  ELSE IF amount = cm THEN cnt + 1
  ELSE cnt

PlaceBid(b, a) ==
  /\ call' = PlaceCall(b, a)
  /\ prev' = Previous
  /\ UNCHANGED threads
  /\ IF BelowMin(a, min_bid)
       THEN /\ outcome' = "Discarded"
            /\ UNCHANGED <<min_bid, frequency, current_max, current_max_count>>
            /\ UNCHANGED history
       ELSE /\ Len(accepted) < MaxBids
            /\ frequency' = DictAppend(frequency, a, b)
            /\ current_max' = NextMax(current_max, a)
            /\ current_max_count' = NextMaxCount(current_max, current_max_count, a)
            /\ accepted' = Append(accepted, [bidder |-> b, amount |-> a])
            /\ closedBeforeBid' = (call.op = "close_auction" \/ closedBeforeBid)
            /\ outcome' = "placed"
            /\ UNCHANGED <<min_bid, earlierMax>>

\* ---- close_auction ----
TakesWinner_flagOnly(cnt, flag) == flag

TakesWinner_anyCount(cnt, flag) == cnt >= 1 \/ flag

TakesWinner(cnt, flag) == cnt = 1 \/ flag

FirstOf_last(s) == s[Len(s)]

FirstOf(s) == s[1]

\* what frequency[k].pop(0) would leave instead of frequency[k][0]
CloseFrequency_pop(f, cm, cnt, flag) ==
  IF TakesWinner(cnt, flag)
    THEN [DictTouch(f, cm) EXCEPT ![cm] = IF @ = <<>> THEN @ ELSE Tail(@)]
    ELSE f

\* a close_auction that discards the bids once it has taken a winner
CloseFrequency_clear(f, cm, cnt, flag) ==
  IF TakesWinner(cnt, flag)
    THEN IF DictGet(f, cm) # <<>> THEN EmptyDict ELSE DictTouch(f, cm)
    ELSE f

\* the dictionary after close_auction
CloseFrequency(f, cm, cnt, flag) ==
  IF TakesWinner(cnt, flag) THEN DictTouch(f, cm) ELSE f

\* the value returned, "None", or the exception raised by [0] on an empty list
CloseResult(f, cm, cnt, flag) ==
  IF TakesWinner(cnt, flag)
    THEN IF DictGet(f, cm) = <<>> THEN "IndexError" ELSE FirstOf(DictGet(f, cm))
    ELSE "None"

\* a close_auction that assigns the next minimum it logs at line 72
CloseAuction_raisesFloor(flag) ==
  /\ call' = CloseCall(flag)
  /\ prev' = Previous
  /\ UNCHANGED threads
  /\ outcome' = CloseResult(frequency, current_max, current_max_count, flag)
  /\ frequency' = CloseFrequency(frequency, current_max, current_max_count, flag)
  /\ min_bid' = IF TakesWinner(current_max_count, flag) THEN min_bid ELSE Plus1(current_max)
  /\ UNCHANGED <<current_max, current_max_count, accepted, earlierMax, closedBeforeBid>>

CloseAuction(flag) ==
  /\ call' = CloseCall(flag)
  /\ prev' = Previous
  /\ UNCHANGED threads
  /\ outcome' = CloseResult(frequency, current_max, current_max_count, flag)
  /\ frequency' = CloseFrequency(frequency, current_max, current_max_count, flag)
  /\ UNCHANGED <<min_bid, current_max, current_max_count, accepted, earlierMax, closedBeforeBid>>

\* ---- restart_auction ----
\* the histories at the end of a round
Highest(S) == CHOOSE m \in S : \A x \in S : x <= m

EndRound ==
  /\ earlierMax' = Highest({accepted[i].amount : i \in DOMAIN accepted} \cup {earlierMax})
  /\ accepted' = <<>>
  /\ closedBeforeBid' = FALSE

RestartFloor_same(cm) == cm

RestartFloor(cm) == Plus1(cm)

\* a restart_auction that only raises the minimum
RestartAuction_floorOnly ==
  /\ call' = RestartCall
  /\ prev' = Previous
  /\ UNCHANGED threads
  /\ outcome' = "restarted"
  /\ min_bid' = RestartFloor(current_max)
  /\ UNCHANGED <<frequency, current_max, current_max_count>>
  /\ EndRound

RestartAuction ==
  /\ call' = RestartCall
  /\ prev' = Previous
  /\ UNCHANGED threads
  /\ outcome' = "restarted"
  /\ min_bid' = RestartFloor(current_max)
  /\ frequency' = EmptyDict
  /\ current_max' = NegInf
  /\ current_max_count' = 0
  /\ EndRound

\* ---- specification ----
Init ==
  /\ min_bid \in InitFloors
  /\ frequency = EmptyDict
  /\ current_max = NegInf
  /\ current_max_count = 0
  /\ call = NoCall
  /\ outcome = "None"
  /\ prev = [call |-> NoCall, outcome |-> "None"]
  /\ accepted = <<>>
  /\ earlierMax = NegInf
  /\ closedBeforeBid = FALSE
  /\ lock_enabled = FALSE
  /\ lock = NoThread
  /\ pc = [t \in Threads |-> "idle"]
  /\ loc = [t \in Threads |-> NoLocals]
  /\ ncalls = 0

Next ==
  \/ \E b \in Bidders, a \in Amounts : PlaceBid(b, a)
  \/ \E flag \in BOOLEAN : CloseAuction(flag)
  \/ RestartAuction

Spec == Init /\ [][Next]_vars

\* ---- the same methods, one step per line, run by two threads ----
\* "with self.lock:" (lines 37, 66, 80): a thread enters when the lock is free
CanEnter_open(t) == TRUE

CanEnter(t) == lock_enabled => lock = NoThread

Enter(t, label, locals) ==
  /\ pc[t] = "idle"
  /\ ncalls < MaxCalls
  /\ ncalls' = ncalls + 1
  /\ CanEnter(t)
  /\ lock' = IF lock_enabled THEN t ELSE lock
  /\ pc' = [pc EXCEPT ![t] = label]
  /\ loc' = [loc EXCEPT ![t] = locals]
  /\ UNCHANGED <<lock_enabled, calls, history>>

\* return, leaving the with block
Return(t) ==
  /\ pc' = [pc EXCEPT ![t] = "idle"]
  /\ loc' = [loc EXCEPT ![t] = NoLocals]
  /\ lock' = IF lock_enabled THEN NoThread ELSE lock
  /\ UNCHANGED <<ncalls, lock_enabled, calls, history>>

Goto(t, label) ==
  /\ pc' = [pc EXCEPT ![t] = label]
  /\ UNCHANGED <<lock, loc, ncalls, lock_enabled, calls, history>>

\* the bids stored plus the place_bid calls under way
Entries ==
  LET RECURSIVE Sum(_)
      Sum(K) == IF K = {} THEN 0
                ELSE LET k == CHOOSE k \in K : TRUE IN Len(frequency[k]) + Sum(K \ {k})
  IN Sum(DOMAIN frequency)
Placing == {t \in Threads : pc[t] \in {"L38", "L42"}}

CallPlaceBid(t, b, a) ==
  /\ Entries + Cardinality(Placing) < MaxBids
  /\ Enter(t, "L38", [NoLocals EXCEPT !.bidder = b, !.amount = a])
  /\ UNCHANGED ledger

L38(t) ==
  /\ pc[t] = "L38"
  /\ IF BelowMin(loc[t].amount, min_bid) THEN Return(t) ELSE Goto(t, "L42")
  /\ UNCHANGED ledger

L42(t) ==
  /\ pc[t] = "L42"
  /\ frequency' = DictAppend(frequency, loc[t].amount, loc[t].bidder)
  /\ Goto(t, "L45")
  /\ UNCHANGED <<min_bid, current_max, current_max_count>>

L45(t) ==
  /\ pc[t] = "L45"
  /\ IF loc[t].amount > current_max THEN Goto(t, "L46") ELSE Goto(t, "L49")
  /\ UNCHANGED ledger

L46(t) ==
  /\ pc[t] = "L46"
  /\ current_max' = loc[t].amount
  /\ Goto(t, "L47")
  /\ UNCHANGED <<min_bid, frequency, current_max_count>>

L47(t) ==
  /\ pc[t] = "L47"
  /\ current_max_count' = 1
  /\ Return(t)
  /\ UNCHANGED <<min_bid, frequency, current_max>>

L49(t) ==
  /\ pc[t] = "L49"
  /\ IF loc[t].amount = current_max THEN Goto(t, "L50") ELSE Return(t)
  /\ UNCHANGED ledger

\* self.current_max_count += 1: the load
L50(t) ==
  /\ pc[t] = "L50"
  /\ loc' = [loc EXCEPT ![t].tmp = current_max_count]
  /\ pc' = [pc EXCEPT ![t] = "L50store"]
  /\ UNCHANGED <<lock, ncalls, ledger, lock_enabled, calls, history>>

\* self.current_max_count += 1: the store
L50store(t) ==
  /\ pc[t] = "L50store"
  /\ current_max_count' = loc[t].tmp + 1
  /\ Return(t)
  /\ UNCHANGED <<min_bid, frequency, current_max>>

CallCloseAuction(t, flag) ==
  /\ Enter(t, "L67", [NoLocals EXCEPT !.flag = flag])
  /\ UNCHANGED ledger

L67(t) ==
  /\ pc[t] = "L67"
  /\ IF TakesWinner(current_max_count, loc[t].flag) THEN Goto(t, "L68") ELSE Return(t)
  /\ UNCHANGED ledger

L68(t) ==
  /\ pc[t] = "L68"
  /\ frequency' = DictTouch(frequency, current_max)
  /\ Return(t)
  /\ UNCHANGED <<min_bid, current_max, current_max_count>>

CallRestartAuction(t) ==
  /\ Enter(t, "L81", NoLocals)
  /\ UNCHANGED ledger

L81(t) ==
  /\ pc[t] = "L81"
  /\ min_bid' = RestartFloor(current_max)
  /\ Goto(t, "L82")
  /\ UNCHANGED <<frequency, current_max, current_max_count>>

L82(t) ==
  /\ pc[t] = "L82"
  /\ frequency' = EmptyDict
  /\ Goto(t, "L83")
  /\ UNCHANGED <<min_bid, current_max, current_max_count>>

L83(t) ==
  /\ pc[t] = "L83"
  /\ current_max' = NegInf
  /\ Goto(t, "L84")
  /\ UNCHANGED <<min_bid, frequency, current_max_count>>

L84(t) ==
  /\ pc[t] = "L84"
  /\ current_max_count' = 0
  /\ Return(t)
  /\ UNCHANGED <<min_bid, frequency, current_max>>

InitThreads ==
  /\ min_bid \in InitFloors
  /\ frequency = EmptyDict
  /\ current_max = NegInf
  /\ current_max_count = 0
  /\ call = NoCall
  /\ outcome = "None"
  /\ prev = [call |-> NoCall, outcome |-> "None"]
  /\ accepted = <<>>
  /\ earlierMax = NegInf
  /\ closedBeforeBid = FALSE
  /\ lock_enabled \in BOOLEAN
  /\ lock = NoThread
  /\ pc = [t \in Threads |-> "idle"]
  /\ loc = [t \in Threads |-> NoLocals]
  /\ ncalls = 0

Step(t) ==
  \/ \E b \in Bidders, a \in Amounts : CallPlaceBid(t, b, a)
  \/ L38(t)
  \/ L42(t)
  \/ L45(t)
  \/ L46(t)
  \/ L47(t)
  \/ L49(t)
  \/ L50(t)
  \/ L50store(t)
  \/ \E flag \in BOOLEAN : CallCloseAuction(t, flag)
  \/ L67(t)
  \/ L68(t)
  \/ CallRestartAuction(t)
  \/ L81(t)
  \/ L82(t)
  \/ L83(t)
  \/ L84(t)

NextThreads == \E t \in Threads : Step(t)

SpecThreads == InitThreads /\ [][NextThreads]_vars

\* ---- helpers of the properties ----
RECURSIVE SetMax(_)
SetMax(S) ==
  LET x == CHOOSE x \in S : TRUE
  IN IF S = {x} THEN x
     ELSE LET m == SetMax(S \ {x}) IN IF x > m THEN x ELSE m

AcceptedAmounts == {accepted[i].amount : i \in DOMAIN accepted}
TrueMax == SetMax(AcceptedAmounts)
\* positions, in placement order, of the accepted bids at the true maximum
AtMax == {i \in DOMAIN accepted : accepted[i].amount = TrueMax}
FirstAtMax == CHOOSE i \in AtMax : \A j \in AtMax : i <= j
Closed == call.op = "close_auction"

\* C1: once a bid has been accepted in the round, current_max is the maximum
\* of the amounts accepted since the last restart, and that is the maximum
\* key of frequency.
C1_MaxIsTrueMax ==
  accepted # <<>> =>
    /\ current_max = TrueMax
    /\ DOMAIN frequency # {}
    /\ current_max = SetMax(DOMAIN frequency)

C1_Witness ==
  /\ Len(accepted) = 3
  /\ accepted[1].amount < accepted[2].amount
  /\ accepted[3].amount < accepted[2].amount
  /\ current_max = accepted[2].amount

\* C2: whenever current_max is set, current_max_count is the length of
\* frequency[current_max], which is the number of bids accepted since the
\* last restart at the current maximum.
C2_CountIsLength ==
  current_max # NegInf =>
    /\ current_max \in DOMAIN frequency
    /\ current_max_count = Len(frequency[current_max])
    /\ current_max_count = Cardinality({i \in DOMAIN accepted : accepted[i].amount = current_max})

C2_Witness ==
  /\ current_max # NegInf
  /\ current_max_count = 2
  /\ Len(accepted) = 3
  /\ prev.call.op = "close_auction"

\* C3 (as claimed): every key of frequency is at least min_bid.
C3_KeysAtLeastFloor == \A k \in DOMAIN frequency : k >= min_bid

\* C4: place_bid with an amount below min_bid changes nothing of the ledger
\* and is logged as discarded.
C4_RejectionMutatesNothing ==
  [][(call'.op = "place_bid" /\ call'.amount < min_bid)
       => (UNCHANGED ledger /\ outcome' = "Discarded")]_vars

C4_Witness ==
  /\ call.op = "place_bid"
  /\ call.amount < min_bid
  /\ outcome = "Discarded"
  /\ frequency = EmptyDict
  /\ current_max = NegInf

\* C5: when exactly one bid accepted in the round has the maximum accepted
\* amount, close_auction returns the bidder of that bid, whatever the flag.
C5_UniqueMaxWins ==
  (Closed /\ accepted # <<>> /\ Cardinality(AtMax) = 1)
    => outcome = accepted[FirstAtMax].bidder

C5_Witness ==
  /\ Closed
  /\ ~call.flag
  /\ Len(accepted) = 3
  /\ AtMax = {2}
  /\ accepted[1].bidder # accepted[2].bidder
  /\ outcome = accepted[2].bidder

\* C6: when two or more accepted bids tie at the maximum and the flag is
\* true, close_auction returns the bidder of the earliest of the tied bids.
C6_TieFirstBidWins ==
  (Closed /\ call.flag /\ accepted # <<>> /\ Cardinality(AtMax) >= 2)
    => outcome = accepted[FirstAtMax].bidder

C6_Witness ==
  /\ Closed
  /\ call.flag
  /\ Len(accepted) = 3
  /\ AtMax = {2, 3}
  /\ accepted[2].bidder # accepted[3].bidder
  /\ accepted[2].bidder # accepted[1].bidder
  /\ outcome = accepted[2].bidder

\* C7: when two or more accepted bids tie at the maximum and the flag is
\* false, close_auction returns None and names no bidder.
C7_TieNoWinner ==
  (Closed /\ ~call.flag /\ accepted # <<>> /\ Cardinality(AtMax) >= 2)
    => (outcome = "None" /\ outcome \notin Bidders)

C7_Witness ==
  /\ Closed
  /\ ~call.flag
  /\ Len(accepted) = 3
  /\ AtMax = {2, 3}
  /\ accepted[1].amount < TrueMax
  /\ accepted[1].bidder # accepted[2].bidder
  /\ outcome = "None"

\* C8 (as claimed): close_auction leaves min_bid, frequency with its key
\* set, current_max and current_max_count as they were.
C8_CloseReadOnly ==
  [][call'.op = "close_auction" => UNCHANGED ledger]_vars

\* C9: two consecutive close_auction calls with the same flag give the same
\* result.
C9_CloseIdempotent ==
  (Closed /\ prev.call.op = "close_auction" /\ prev.call.flag = call.flag)
    => outcome = prev.outcome

C9_Witness ==
  /\ Closed
  /\ prev.call = call
  /\ call.flag
  /\ Cardinality(AtMax) >= 2
  /\ outcome \in Bidders
  /\ outcome = prev.outcome

C9_WitnessNoBids ==
  /\ Closed
  /\ prev.call = call
  /\ accepted = <<>>
  /\ outcome = "IndexError"
  /\ prev.outcome = "IndexError"

\* C10: restart_auction after at least one accepted bid sets min_bid to the
\* former current_max + 1, empties frequency, unsets current_max and zeroes
\* current_max_count.
C10_RestartAfterBids ==
  [][(call'.op = "restart_auction" /\ accepted # <<>>)
       => /\ min_bid' = current_max + 1
          /\ min_bid' = TrueMax + 1
          /\ frequency' = EmptyDict
          /\ DOMAIN frequency' = {}
          /\ current_max' = NegInf
          /\ current_max_count' = 0]_vars

C10_Witness ==
  /\ call.op = "restart_auction"
  /\ prev.call.op = "close_auction"
  /\ prev.outcome = "None"
  /\ min_bid = MaxAmount + 1
  /\ frequency = EmptyDict
  /\ current_max = NegInf
  /\ current_max_count = 0

\* C11 (as claimed): after a restart_auction that followed an accepted bid,
\* a bid at or below that round's maximum is rejected, and every bid accepted
\* in a round is strictly greater than every amount accepted in an earlier
\* round.
C11_LaterRoundsHigher ==
  /\ (call.op = "place_bid" /\ earlierMax # NegInf /\ call.amount <= earlierMax)
       => outcome = "Discarded"
  /\ \A i \in DOMAIN accepted : accepted[i].amount > earlierMax

\* C12 (as claimed): restart_auction on a round without accepted bids leaves
\* min_bid the integer it was.
C12_RestartNoBidsKeepsFloor ==
  [][(call'.op = "restart_auction" /\ accepted = <<>>)
       => (min_bid' = min_bid /\ min_bid' # NegInf)]_vars

\* C13: close_auction on a round without accepted bids returns no bidder:
\* it returns None or raises, for either flag.
C13_NoBidsNoWinner ==
  (Closed /\ accepted = <<>>)
    => (outcome \notin Bidders /\ outcome \in {"None", "IndexError"})

C13_Witness ==
  /\ Closed
  /\ call.flag
  /\ accepted = <<>>
  /\ earlierMax # NegInf
  /\ prev.call.op = "restart_auction"
  /\ outcome = "IndexError"

\* C14: place_bid, accepted or rejected, and close_auction, with either flag,
\* leave min_bid unchanged.
C14_FloorOnlyByRestart ==
  [][call'.op \in {"place_bid", "close_auction"} => min_bid' = min_bid]_vars

C14_Witness ==
  /\ Closed
  /\ ~call.flag
  /\ outcome = "None"
  /\ prev.call.op = "place_bid"
  /\ prev.outcome = "placed"
  /\ closedBeforeBid
  /\ earlierMax = NegInf
  /\ min_bid \in InitFloors

\* the bidders of the bids accepted at amount a, in placement order
BiddersAt(a) ==
  LET sel == SelectSeq(accepted, LAMBDA x : x.amount = a)
  IN [i \in 1 .. Len(sel) |-> sel[i].bidder]

\* C15: an accepted place_bid appends the bidder at the end of
\* frequency[amount] and changes no other sequence; so the sequences of
\* frequency hold exactly the bids accepted since the last restart, those of
\* one amount in placement order.
C15_AppendOnly ==
  /\ [](/\ \A k \in DOMAIN frequency : frequency[k] = BiddersAt(k)
        /\ AcceptedAmounts \subseteq DOMAIN frequency)
  /\ [][(call'.op = "place_bid" /\ ~(call'.amount < min_bid))
          => frequency' = [k \in DOMAIN frequency \cup {call'.amount} |->
                             IF k = call'.amount
                               THEN Append(DictGet(frequency, k), call'.bidder)
                               ELSE frequency[k]]]_vars

C15_Witness ==
  /\ call.op = "place_bid"
  /\ outcome = "placed"
  /\ Len(accepted) = 3
  /\ accepted[1].amount = accepted[3].amount
  /\ accepted[2].amount # accepted[1].amount
  /\ accepted[1].bidder # accepted[3].bidder
  /\ frequency[call.amount] = <<accepted[1].bidder, accepted[3].bidder>>

\* the result close_auction owes the bids accepted in the round
Owed(flag) ==
  IF accepted = <<>> THEN (IF flag THEN "IndexError" ELSE "None")
  ELSE IF Cardinality(AtMax) = 1 \/ flag THEN accepted[FirstAtMax].bidder
  ELSE "None"

\* the current_max / current_max_count cache agrees with frequency
CacheConsistent ==
  /\ current_max_count = Len(DictGet(frequency, current_max))
  /\ IF DOMAIN frequency \subseteq {NegInf}
       THEN current_max = NegInf
       ELSE current_max = SetMax(DOMAIN frequency)

Quiet == \A t \in Threads : pc[t] = "idle"

\* C16: when every call runs under the lock, the cache agrees with frequency
\* whenever the lock is free and whenever a call starts or close_auction
\* reads it; without the lock, interleaved steps of the calls reach states
\* where it does not (the witnesses).
C16_LockKeepsCacheConsistent ==
  lock_enabled =>
    /\ lock = NoThread => (Quiet /\ CacheConsistent)
    /\ \A t \in Threads : pc[t] \in {"L38", "L67", "L68", "L81"} => CacheConsistent

C16_Witness ==
  /\ ~lock_enabled
  /\ Quiet
  /\ current_max # NegInf
  /\ current_max \in DOMAIN frequency
  /\ current_max_count # Len(frequency[current_max])

\* a close_auction about to read the list while a place_bid has stored its
\* bid but not yet updated the cache
C16_WitnessClose ==
  /\ ~lock_enabled
  /\ \E t, u \in Threads : pc[t] = "L68" /\ pc[u] = "L45"
  /\ ncalls = 2
  /\ ~CacheConsistent

\* a place_bid finishing after a restart_auction has cleared the dictionary
C16_WitnessRestart ==
  /\ ~lock_enabled
  /\ Quiet
  /\ ncalls = 2
  /\ frequency = EmptyDict
  /\ current_max # NegInf

C16_WitnessMax ==
  /\ ~lock_enabled
  /\ Quiet
  /\ DOMAIN frequency # {}
  /\ current_max # SetMax(DOMAIN frequency)

\* C17: close_auction does not end the round: a place_bid at or above
\* min_bid that follows it is still accepted, and a later close_auction
\* answers for all the bids of the round, those placed after the earlier
\* close included.
C17_CloseDoesNotEndRound ==
  /\ []((Closed /\ closedBeforeBid) => outcome = Owed(call.flag))
  /\ [][(call.op = "close_auction" /\ call'.op = "place_bid" /\ call'.amount >= min_bid)
          => /\ outcome' = "placed"
             /\ accepted' = Append(accepted, [bidder |-> call'.bidder, amount |-> call'.amount])
             /\ call'.amount \in DOMAIN frequency'
             /\ frequency'[call'.amount] = Append(DictGet(frequency, call'.amount), call'.bidder)]_vars

\* a higher bid placed after a winning close replaces the winner
C17_Witness ==
  /\ Closed
  /\ ~call.flag
  /\ closedBeforeBid
  /\ prev.call.op = "place_bid"
  /\ prev.outcome = "placed"
  /\ Len(accepted) = 2
  /\ accepted[1].amount < accepted[2].amount
  /\ accepted[1].bidder # accepted[2].bidder
  /\ outcome = accepted[2].bidder

\* an equal bid placed after a winning close makes a tie
C17_WitnessTie ==
  /\ Closed
  /\ ~call.flag
  /\ closedBeforeBid
  /\ prev.call.op = "place_bid"
  /\ prev.outcome = "placed"
  /\ Len(accepted) = 2
  /\ outcome = "None"
  /\ Cardinality(AtMax) = 2

\* C18 (as claimed): min_bid never decreases, and a restart_auction after an
\* accepted bid makes it strictly greater.
C18_FloorNeverDecreases ==
  [][/\ min_bid' >= min_bid
     /\ (call'.op = "restart_auction" /\ accepted # <<>>) => min_bid' > min_bid]_vars

\* C19: ties are counted per bid: when one bidder has placed the only two
\* bids at the maximum, current_max_count is 2, close_auction(False) returns
\* None and close_auction(True) returns that bidder.
C19_TiePerBid ==
  (Cardinality(AtMax) = 2 /\ \A i, j \in AtMax : accepted[i].bidder = accepted[j].bidder)
    => /\ current_max_count = 2
       /\ Closed => outcome = IF call.flag THEN accepted[FirstAtMax].bidder ELSE "None"

C19_Witness ==
  /\ Closed
  /\ ~call.flag
  /\ Cardinality(AtMax) = 2
  /\ \A i, j \in AtMax : accepted[i].bidder = accepted[j].bidder
  /\ current_max_count = 2
  /\ outcome = "None"
  /\ prev.call = CloseCall(TRUE)
  /\ prev.outcome = accepted[FirstAtMax].bidder

====
